---- MODULE Spec2Model ----
(***************************************************************************)
(* KennelRig: synchronized audio/video capture.                            *)
(*                                                                         *)
(* Threads of the program:                                                 *)
(*   - the main thread, running KennelRig.start() and, on top of whatever  *)
(*     it is executing, the SIGINT handler KennelRig.signal_handler        *)
(*     (CPython runs a Python-level signal handler on the main thread,     *)
(*     between two bytecodes of the interrupted code, the handler itself   *)
(*     included: handlers nest);                                           *)
(*   - the video thread, running WiggleChecker.record();                   *)
(*   - the audio thread, running BarkRecorder.standalone_thread();         *)
(*   - the audio device's callback thread, calling BarkRecorder.record().  *)
(*                                                                         *)
(* The main thread is modelled by its call stack: a sequence of program    *)
(* counters, the last one being the frame that executes.  Program counters *)
(* are named after the source line they are about to execute.              *)
(*                                                                         *)
(* Device library behaviour the code relies on (PyAudio, OpenCV):          *)
(*   - PyAudio.open() starts the stream at once (start=True by default),   *)
(*     so callbacks are delivered from construction on;                    *)
(*   - a callback that returns paComplete ends the stream: it is no        *)
(*     longer active, and start_stream() on it is ignored (not stopped);   *)
(*   - is_active(), stop_stream(), start_stream() on a closed stream       *)
(*     raise OSError; close() on a closed stream does nothing;             *)
(*   - VideoCapture.read() on a released camera returns (False, None);     *)
(*     VideoWriter.write() on a released writer drops the frame.           *)
(***************************************************************************)
EXTENDS Integers, Sequences, FiniteSets, TLC

VARIABLES
    now,                \* wall clock: the latest value time.time() returned
    stack,              \* call stack of the main thread
    exc,                \* exception that ended the main thread, or "none"
    sigints,            \* number of SIGINT deliveries so far
    start_event,        \* KennelRig.start_event
    shutdown_initiated, \* KennelRig.shutdown_initiated
    video_delay,        \* merge(): video_delay (0 until merge() binds it)
    audio_delay,        \* merge(): audio_delay (0 until merge() binds it)
    offset_diff,        \* merge(): offset_diff (0 until merge() binds it)
    command,            \* merge(): the command passed to subprocess.call
    merge_calls,        \* number of subprocess.call(command) executed
    cam_running,        \* WiggleChecker.running
    cam_start_time,     \* WiggleChecker.start_time
    first_frame_time,   \* WiggleChecker.first_frame_time
    stop_event,         \* WiggleChecker.stop_event
    current_frame,      \* WiggleChecker.current_frame is not None
    camera_open,        \* WiggleChecker.camera.isOpened()
    writer_open,        \* WiggleChecker.writer not released
    written,            \* frames stored by WiggleChecker.writer
    nframes,            \* frames read successfully by record()
    vpc,                \* program counter of the video thread
    mic_running,        \* BarkRecorder.running
    mic_start_time,     \* BarkRecorder.start_time
    first_buffer_time,  \* BarkRecorder.first_buffer_time
    audio_frames,       \* len(BarkRecorder.audio_frames)
    stream,             \* state of BarkRecorder.stream
    listener_open,      \* BarkRecorder.listener not terminated
    wav_writes,         \* number of times the wave file was written
    apc                 \* program counter of the audio thread

merge_vars == <<video_delay, audio_delay, offset_diff, command, merge_calls>>
rig_vars == <<start_event, shutdown_initiated, merge_vars>>
cam_vars == <<cam_running, cam_start_time, first_frame_time, stop_event,
              current_frame, camera_open, writer_open, written, nframes>>
mic_vars == <<mic_running, mic_start_time, first_buffer_time, audio_frames,
              stream, listener_open, wav_writes>>
vars == <<now, stack, exc, sigints, rig_vars, cam_vars, mic_vars, vpc, apc>>

\* ---------------------------------------------------------------- bounds
MaxSigints == 2     \* SIGINT deliveries in a session
MaxFrames == 2      \* frames the camera delivers before a read fails
MaxBuffers == 2     \* buffers the audio device delivers

\* ---------------------------------------------------------------- values
\* Timestamps are positive numbers (the first time.time() returns 1).
\* Python's None, as the value of a timestamp attribute
None == 0
\* a timestamp attribute that was never assigned (reading it raises
\* AttributeError)
Undefined == -1

\* KennelRig.parts
Parts == 1

\* The lines of KennelRig.__init__ that construct the camera (38), the
\* microphone (39) and register the handler (40-43).
SetupPcs == {"k38", "k39", "k40"}

\* ------------------------------------------------------- main call stack
Top == stack[Len(stack)]
Below == SubSeq(stack, 1, Len(stack) - 1)
Goto(pc) == Append(Below, pc)
Call(ret, callee) == Append(Append(Below, ret), callee)

HandlerPcs == {"h66", "h68", "h71", "h72", "h73"}
\* frames of a handler that is past its shutdown_initiated guard
PastGuardPcs == {"h68", "h71", "h72", "h73"}

MainAlive == Top \notin {"done", "crashed"}
InHandler == \E i \in DOMAIN stack : stack[i] \in HandlerPcs

\* An uncaught exception unwinds every frame of the main thread: neither
\* the handler nor start() catches anything.
Raise(e) == /\ stack' = <<"crashed">>
            /\ exc' = e

\* A return from BarkRecorder.stop(): back to the caller, and when the
\* caller is the handler at its last line, out of the handler too.
ReturnFromStop ==
    IF Below[Len(Below)] = "h73"
    THEN SubSeq(Below, 1, Len(Below) - 1)
    ELSE Below

\* ------------------------------------------------------------------ Init
\* The state after KennelRig() has been constructed: both devices opened,
\* the audio stream opened (and so started) with record() as its callback,
\* the handler registered, no thread created yet.
Init ==
    /\ now = 0
    /\ stack = <<"l47">>
    /\ exc = "none"
    /\ sigints = 0
    /\ start_event = FALSE
    /\ shutdown_initiated = FALSE
    /\ video_delay = 0
    /\ audio_delay = 0
    /\ offset_diff = 0
    /\ command = <<>>
    /\ merge_calls = 0
    /\ cam_running = FALSE
    /\ cam_start_time = None
    /\ first_frame_time = Undefined
    /\ stop_event = FALSE
    /\ current_frame = FALSE
    /\ camera_open = TRUE
    /\ writer_open = TRUE
    /\ written = 0
    /\ nframes = 0
    /\ vpc = "none"
    /\ mic_running = FALSE
    /\ mic_start_time = None
    /\ first_buffer_time = None
    /\ audio_frames = 0
    /\ stream = "active"
    /\ listener_open = TRUE
    /\ wav_writes = 0
    /\ apc = "none"

\* ----------------------------------------------------------------- clock
\* time.time(): the clock does not run backwards and is finer than the
\* time between two calls, so each call returns more than the call before.
\* Timestamps are thereby the ranks of the calls; differences of timestamps
\* are in units of one call.
TimeRead == now' = now + 1

\* ------------------------------------------------- WiggleChecker.signal_stop
\* running = False; stop_event.set()
SignalStop ==
    /\ cam_running' = FALSE
    /\ stop_event' = TRUE

\* ------------------------------------------------------- KennelRig.start
\* line 47: camera.start()
CameraStart ==
    /\ Top = "l47"
    /\ cam_running' = TRUE
    /\ stop_event' = FALSE
    /\ vpc' = "l114"
    /\ stack' = Goto("l48")
    /\ UNCHANGED <<now, exc, sigints, rig_vars, mic_vars, apc, cam_start_time,
                   first_frame_time, current_frame, camera_open, writer_open,
                   written, nframes>>

\* line 48: mic.start()
MicStart ==
    /\ Top = "l48"
    /\ mic_running' = TRUE
    /\ apc' = "l81"
    /\ stack' = Goto("l49")
    /\ UNCHANGED <<now, exc, sigints, rig_vars, cam_vars, vpc, mic_start_time,
                   first_buffer_time, audio_frames, stream, listener_open,
                   wav_writes>>

\* the barrier as a pulse: set() followed by clear()
ReleaseBarrierPulse ==
    /\ Top = "l49"
    /\ start_event' = FALSE
    /\ stack' = Goto("d97")
    /\ UNCHANGED <<now, exc, sigints, shutdown_initiated, merge_vars,
                   cam_vars, mic_vars, vpc, apc>>

\* line 49: start_event.set()
ReleaseBarrier ==
    /\ Top = "l49"
    /\ start_event' = TRUE
    /\ stack' = Goto("d97")
    /\ UNCHANGED <<now, exc, sigints, shutdown_initiated, merge_vars, cam_vars,
                   mic_vars, vpc, apc>>

\* WiggleChecker.display, lines 97-109: one pass of the preview loop.
\* while self.running: imshow; if waitKey(10) == ord("q"): signal_stop(),
\* break; sleep.  Out of the loop, start() goes on to line 53
\* (destroyAllWindows) and line 54.
Display(q) ==
    /\ Top = "d97"
    /\ IF ~cam_running
       THEN /\ stack' = Goto("l54")
            /\ UNCHANGED <<cam_running, stop_event>>
       ELSE IF q
       THEN /\ SignalStop
            /\ stack' = Goto("l54")
       ELSE /\ UNCHANGED <<stack, cam_running, stop_event>>
    /\ UNCHANGED <<now, exc, sigints, rig_vars, mic_vars, vpc, apc, cam_start_time,
                   first_frame_time, current_frame, camera_open, writer_open,
                   written, nframes>>

\* start() without the mic.stop() of line 54
StartSkipMicStop ==
    /\ Top = "l54"
    /\ stack' = Goto("l55")
    /\ UNCHANGED <<now, exc, sigints, rig_vars, cam_vars, mic_vars, vpc, apc>>

\* line 54: mic.stop(), entered; BarkRecorder.stop line 87: running = False
StartMicStop ==
    /\ Top = "l54"
    /\ mic_running' = FALSE
    /\ stack' = Call("l55", "s90")
    /\ UNCHANGED <<now, exc, sigints, rig_vars, cam_vars, vpc, apc, mic_start_time,
                   first_buffer_time, audio_frames, stream, listener_open,
                   wav_writes>>

\* line 55: camera.stop(); WiggleChecker.stop lines 91-92
CameraRelease ==
    /\ Top = "l55"
    /\ camera_open' = FALSE
    /\ stack' = Goto("c93")
    /\ UNCHANGED <<now, exc, sigints, rig_vars, mic_vars, vpc, apc, cam_running,
                   cam_start_time, first_frame_time, stop_event, current_frame,
                   writer_open, written, nframes>>

\* WiggleChecker.stop line 93: writer.release()
WriterRelease ==
    /\ Top = "c93"
    /\ writer_open' = FALSE
    /\ stack' = Goto("m77")
    /\ UNCHANGED <<now, exc, sigints, rig_vars, mic_vars, vpc, apc, cam_running,
                   cam_start_time, first_frame_time, stop_event, current_frame,
                   camera_open, written, nframes>>

\* ------------------------------------------------------- KennelRig.merge
\* lines 77-81
VideoDelay ==
    IF first_frame_time # None THEN first_frame_time - cam_start_time ELSE 0

\* lines 82-84
AudioDelay ==
    IF first_buffer_time # None THEN first_buffer_time - mic_start_time ELSE 0

\* the offset branch taken for offset_diff = 0 as well
MergeCommandFromZero(diff) ==
    IF diff >= 0
    THEN <<"ffmpeg", "-i", "video_1.avi", "-itsoffset", ToString(diff),
           "-i", "audio_1.wav", "-c:a", "aac", "-async", "1", "-ss", "-1",
           "-y", "recording_1.avi">>
    ELSE <<"ffmpeg", "-i", "video_1.avi", "-i", "audio_1.wav", "-c:a", "aac",
           "-async", "10", "-y", "recording_1.avi">>

\* lines 99-115 and 117-129: the ffmpeg command of one part
MergeCommand(diff) ==
    IF diff > 0
    THEN <<"ffmpeg", "-i", "video_1.avi", "-itsoffset", ToString(diff),
           "-i", "audio_1.wav", "-c:a", "aac", "-async", "1", "-ss", "-1",
           "-y", "recording_1.avi">>
    ELSE <<"ffmpeg", "-i", "video_1.avi", "-i", "audio_1.wav", "-c:a", "aac",
           "-async", "10", "-y", "recording_1.avi">>

\* lines 77-90: the two delays and their difference.  Reading an attribute
\* that was never assigned raises AttributeError; float - None raises
\* TypeError.
MergeDelays ==
    /\ Top = "m77"
    /\ IF first_frame_time = Undefined
       THEN /\ Raise("AttributeError")
            /\ UNCHANGED <<video_delay, audio_delay, offset_diff>>
       ELSE IF first_buffer_time # None /\ mic_start_time = None
       THEN /\ Raise("TypeError")
            /\ video_delay' = VideoDelay
            /\ UNCHANGED <<audio_delay, offset_diff>>
       ELSE /\ video_delay' = VideoDelay
            /\ audio_delay' = AudioDelay
            /\ offset_diff' = AudioDelay - VideoDelay
            /\ stack' = Goto("m93")
            /\ UNCHANGED exc
    /\ UNCHANGED <<now, sigints, start_event, shutdown_initiated, command,
                   merge_calls, cam_vars, mic_vars, vpc, apc>>

\* lines 93-131: for the single part, build the command and call ffmpeg
MergeCall ==
    /\ Top = "m93"
    /\ command' = MergeCommand(offset_diff)
    /\ merge_calls' = merge_calls + Parts
    /\ stack' = Goto("done")
    /\ UNCHANGED <<now, exc, sigints, start_event, shutdown_initiated,
                   video_delay, audio_delay, offset_diff, cam_vars, mic_vars,
                   vpc, apc>>

\* ------------------------------------------------------ BarkRecorder.stop
\* (line 87 is executed by the caller's step; these are lines 90-101, run
\* by whichever frame called stop(): start() or the handler)
\* line 90: if self.stream.is_active()
StopIsActive ==
    /\ Top = "s90"
    /\ IF stream = "closed"
       THEN Raise("OSError")
       ELSE /\ stack' = Goto(IF stream = "active" THEN "s91" ELSE "s92")
            /\ UNCHANGED exc
    /\ UNCHANGED <<now, sigints, rig_vars, cam_vars, mic_vars, vpc, apc>>

\* line 91: self.stream.stop_stream()
StopStream ==
    /\ Top = "s91"
    /\ IF stream = "closed"
       THEN Raise("OSError") /\ UNCHANGED stream
       ELSE /\ stream' = "stopped"
            /\ stack' = Goto("s92")
            /\ UNCHANGED exc
    /\ UNCHANGED <<now, sigints, rig_vars, cam_vars, vpc, apc, mic_running,
                   mic_start_time, first_buffer_time, audio_frames,
                   listener_open, wav_writes>>

\* line 92: self.stream.close()
StopClose ==
    /\ Top = "s92"
    /\ stream' = "closed"
    /\ stack' = Goto("s94")
    /\ UNCHANGED <<now, exc, sigints, rig_vars, cam_vars, vpc, apc, mic_running,
                   mic_start_time, first_buffer_time, audio_frames,
                   listener_open, wav_writes>>

\* lines 94-101: get_sample_size; self.listener.terminate(); write the
\* wave file; return
StopWriteFile ==
    /\ Top = "s94"
    /\ listener_open' = FALSE
    /\ wav_writes' = wav_writes + 1
    /\ stack' = ReturnFromStop
    /\ UNCHANGED <<now, exc, sigints, rig_vars, cam_vars, vpc, apc, mic_running,
                   mic_start_time, first_buffer_time, audio_frames, stream>>

\* ---------------------------------------------- KennelRig.signal_handler
\* A SIGINT is delivered: the handler is entered on top of whatever the
\* main thread is executing.
Sigint ==
    /\ MainAlive
    /\ stack[1] \notin SetupPcs
    /\ sigints < MaxSigints
    /\ sigints' = sigints + 1
    /\ stack' = Append(stack, "h66")
    /\ UNCHANGED <<now, exc, rig_vars, cam_vars, mic_vars, vpc, apc>>

\* line 66: if not self.shutdown_initiated (else: return)
HandlerGuard ==
    /\ Top = "h66"
    /\ stack' = IF ~shutdown_initiated THEN Goto("h68") ELSE Below
    /\ UNCHANGED <<now, exc, sigints, rig_vars, cam_vars, mic_vars, vpc, apc>>

\* lines 67-68: print; self.shutdown_initiated = True
HandlerSetFlag ==
    /\ Top = "h68"
    /\ shutdown_initiated' = TRUE
    /\ stack' = Goto("h71")
    /\ UNCHANGED <<now, exc, sigints, start_event, merge_vars, cam_vars,
                   mic_vars, vpc, apc>>

\* line 71: self.camera.signal_stop()
HandlerSignalStop ==
    /\ Top = "h71"
    /\ SignalStop
    /\ stack' = Goto("h72")
    /\ UNCHANGED <<now, exc, sigints, rig_vars, mic_vars, vpc, apc, cam_start_time,
                   first_frame_time, current_frame, camera_open, writer_open,
                   written, nframes>>

\* line 72: self.mic.stop(), entered; BarkRecorder.stop line 87
HandlerMicStop ==
    /\ Top = "h72"
    /\ mic_running' = FALSE
    /\ stack' = Call("h73", "s90")
    /\ UNCHANGED <<now, exc, sigints, rig_vars, cam_vars, vpc, apc, mic_start_time,
                   first_buffer_time, audio_frames, stream, listener_open,
                   wav_writes>>

\* --------------------------------------------------- WiggleChecker.record
\* record() without the wait of line 114
RecordWaitNoBarrier ==
    /\ vpc = "l114"
    /\ vpc' = "l115"
    /\ UNCHANGED <<now, stack, exc, sigints, rig_vars, cam_vars, mic_vars, apc>>

\* line 114: self.start_event.wait()
RecordWait ==
    /\ vpc = "l114"
    /\ start_event
    /\ vpc' = "l115"
    /\ UNCHANGED <<now, stack, exc, sigints, rig_vars, cam_vars, mic_vars, apc>>

\* line 115: self.start_time = time.time()
RecordStartTime ==
    /\ vpc = "l115"
    /\ TimeRead
    /\ cam_start_time' = now'
    /\ vpc' = "l116"
    /\ UNCHANGED <<stack, exc, sigints, rig_vars, mic_vars, apc, cam_running,
                   first_frame_time, stop_event, current_frame, camera_open,
                   writer_open, written, nframes>>

\* line 116: self.first_frame_time = None
RecordInitFirst ==
    /\ vpc = "l116"
    /\ first_frame_time' = None
    /\ vpc' = "l118"
    /\ UNCHANGED <<now, stack, exc, sigints, rig_vars, mic_vars, apc, cam_running,
                   cam_start_time, stop_event, current_frame, camera_open,
                   writer_open, written, nframes>>

\* line 118: while self.running and self.camera.isOpened()
RecordLoop ==
    /\ vpc = "l118"
    /\ vpc' = IF cam_running /\ camera_open THEN "l120" ELSE "l138"
    /\ UNCHANGED <<now, stack, exc, sigints, rig_vars, cam_vars, mic_vars, apc>>

\* a failed read goes back to the loop test instead of leaving the loop
RecordReadRetry ==
    /\ vpc = "l120"
    /\ \E ret \in BOOLEAN :
          /\ ret => camera_open /\ nframes < MaxFrames
          /\ nframes' = IF ret THEN nframes + 1 ELSE nframes
          /\ vpc' = IF ret THEN "l126" ELSE "l118"
    /\ UNCHANGED <<now, stack, exc, sigints, rig_vars, mic_vars, apc, cam_running,
                   cam_start_time, first_frame_time, stop_event, current_frame,
                   camera_open, writer_open, written>>

\* lines 120-123: ret, frame = self.camera.read(); if not ret: break
RecordRead ==
    /\ vpc = "l120"
    /\ \E ret \in BOOLEAN :
          /\ ret => camera_open /\ nframes < MaxFrames
          /\ nframes' = IF ret THEN nframes + 1 ELSE nframes
          /\ vpc' = IF ret THEN "l126" ELSE "l138"
    /\ UNCHANGED <<now, stack, exc, sigints, rig_vars, mic_vars, apc, cam_running,
                   cam_start_time, first_frame_time, stop_event, current_frame,
                   camera_open, writer_open, written>>

\* lines 126-128: if self.first_frame_time is None: ... = time.time()
StampFirstFrame ==
    IF first_frame_time = None
    THEN /\ TimeRead
         /\ first_frame_time' = now'
    ELSE UNCHANGED <<now, first_frame_time>>

\* lines 126-135: stamp the first frame, write the frame, publish it
RecordFrame ==
    /\ vpc = "l126"
    /\ StampFirstFrame
    /\ written' = IF writer_open THEN written + 1 ELSE written
    /\ current_frame' = TRUE
    /\ vpc' = "l118"
    /\ UNCHANGED <<stack, exc, sigints, rig_vars, mic_vars, apc, cam_running,
                   cam_start_time, stop_event, camera_open, writer_open, nframes>>

\* lines 137-138: self.signal_stop(), and the thread ends
RecordExit ==
    /\ vpc = "l138"
    /\ SignalStop
    /\ vpc' = "done"
    /\ UNCHANGED <<now, stack, exc, sigints, rig_vars, mic_vars, apc,
                   cam_start_time, first_frame_time, current_frame, camera_open,
                   writer_open, written, nframes>>

\* ---------------------------------------- BarkRecorder.standalone_thread
\* line 81: self.start_event.wait()
StandaloneWait ==
    /\ apc = "l81"
    /\ start_event
    /\ apc' = "l82"
    /\ UNCHANGED <<now, stack, exc, sigints, rig_vars, cam_vars, mic_vars, vpc>>

\* line 82: self.start_time = time.time()
StandaloneStartTime ==
    /\ apc = "l82"
    /\ TimeRead
    /\ mic_start_time' = now'
    /\ apc' = "l83"
    /\ UNCHANGED <<stack, exc, sigints, rig_vars, cam_vars, vpc, mic_running,
                   first_buffer_time, audio_frames, stream, listener_open,
                   wav_writes>>

\* line 83: self.stream.start_stream(), and the thread ends: with OSError
\* on a closed stream; a stopped stream runs again; a stream that is
\* running, or that a callback completed, is left as it is.
StandaloneStartStream ==
    /\ apc = "l83"
    /\ apc' = IF stream = "closed" THEN "crashed" ELSE "done"
    /\ stream' = IF stream = "stopped" THEN "active" ELSE stream
    /\ UNCHANGED <<now, stack, exc, sigints, rig_vars, cam_vars, vpc, mic_running,
                   mic_start_time, first_buffer_time, audio_frames,
                   listener_open, wav_writes>>

\* --------------------------------------------------- BarkRecorder.record
\* record() without the "is None" test of line 121
StampEveryBuffer ==
    /\ TimeRead
    /\ first_buffer_time' = now'

\* lines 121-123: if self.first_buffer_time is None: ... = time.time()
StampFirstBuffer ==
    IF first_buffer_time = None
    THEN /\ TimeRead
         /\ first_buffer_time' = now'
    ELSE UNCHANGED <<now, first_buffer_time>>

\* lines 121-129: the callback of the audio stream, called by the device
\* thread while the stream is active; returning paComplete ends the stream.
RecordCallback ==
    /\ stream = "active"
    /\ audio_frames < MaxBuffers
    /\ StampFirstBuffer
    /\ audio_frames' = audio_frames + 1
    /\ stream' = IF mic_running THEN "active" ELSE "complete"
    /\ UNCHANGED <<stack, exc, sigints, rig_vars, cam_vars, vpc, apc,
                   mic_running, mic_start_time, listener_open, wav_writes>>

\* ------------------------------------------------------------------ Next
MainThread ==
    \/ CameraStart \/ MicStart \/ ReleaseBarrier
    \/ Display(FALSE)
    \/ StartMicStop \/ CameraRelease \/ WriterRelease
    \/ MergeDelays \/ MergeCall
    \/ StopIsActive \/ StopStream \/ StopClose \/ StopWriteFile
    \/ HandlerGuard \/ HandlerSetFlag \/ HandlerSignalStop \/ HandlerMicStop

VideoThread ==
    \/ RecordWait \/ RecordStartTime \/ RecordInitFirst
    \/ RecordLoop \/ RecordRead \/ RecordFrame \/ RecordExit

AudioThread ==
    \/ StandaloneWait \/ StandaloneStartTime \/ StandaloneStartStream

\* The user presses 'q' in the preview window.
KeyQ == cam_running /\ Display(TRUE)

Next ==
    \/ MainThread
    \/ KeyQ
    \/ VideoThread
    \/ AudioThread
    \/ RecordCallback
    \/ Sigint

Spec == Init /\ [][Next]_vars

\* Every thread that can take a step eventually takes one; nothing is
\* assumed of the user (the 'q' key, Ctrl+C), the devices or the clock.
FairSpec ==
    /\ Spec
    /\ WF_vars(MainThread)
    /\ WF_vars(VideoThread)
    /\ WF_vars(AudioThread)

\* ------------------------------------------------ KennelRig.__init__
\* The session from the first device-opening line of the constructor.
\* SetupSpec runs the constructor and then the session of Spec; after a
\* construction in which both devices open, its state is Init.
SetupInit ==
    /\ now = 0
    /\ stack = <<"k38">>
    /\ exc = "none"
    /\ sigints = 0
    /\ start_event = FALSE
    /\ shutdown_initiated = FALSE
    /\ video_delay = 0
    /\ audio_delay = 0
    /\ offset_diff = 0
    /\ command = <<>>
    /\ merge_calls = 0
    /\ cam_running = FALSE
    /\ cam_start_time = None
    /\ first_frame_time = Undefined
    /\ stop_event = FALSE
    /\ current_frame = FALSE
    /\ camera_open = FALSE
    /\ writer_open = FALSE
    /\ written = 0
    /\ nframes = 0
    /\ vpc = "none"
    /\ mic_running = FALSE
    /\ mic_start_time = None
    /\ first_buffer_time = None
    /\ audio_frames = 0
    /\ stream = "unopened"
    /\ listener_open = FALSE
    /\ wav_writes = 0
    /\ apc = "none"

\* the camera that cannot be opened is reported and construction goes on
ConstructCameraNoExit ==
    /\ Top = "k38"
    /\ \E opened \in BOOLEAN :
          /\ camera_open' = opened
          /\ writer_open' = TRUE
    /\ stack' = Goto("k39")
    /\ UNCHANGED <<now, exc, sigints, rig_vars, mic_vars, vpc, apc, cam_running,
                   cam_start_time, first_frame_time, stop_event, current_frame,
                   written, nframes>>

\* KennelRig.py line 38, WiggleChecker.__init__ lines 45-73:
\* cv2.VideoCapture(0); if not isOpened(): sys.exit(1); then the writer.
\* SystemExit is caught nowhere and ends the main thread.
ConstructCamera ==
    /\ Top = "k38"
    /\ \E opened \in BOOLEAN :
          IF opened
          THEN /\ camera_open' = TRUE
               /\ writer_open' = TRUE
               /\ stack' = Goto("k39")
               /\ UNCHANGED exc
          ELSE /\ Raise("SystemExit")
               /\ UNCHANGED <<camera_open, writer_open>>
    /\ UNCHANGED <<now, sigints, rig_vars, mic_vars, vpc, apc, cam_running,
                   cam_start_time, first_frame_time, stop_event, current_frame,
                   written, nframes>>

\* KennelRig.py line 39, BarkRecorder.__init__ lines 50-71: PyAudio(),
\* then get_default_input_device_info() and listener.open(...), each of
\* which raises OSError when there is no usable input device; the
\* constructor catches nothing.  An opened stream is started by open().
ConstructMic ==
    /\ Top = "k39"
    /\ listener_open' = TRUE
    /\ \E opened \in BOOLEAN :
          IF opened
          THEN /\ stream' = "active"
               /\ stack' = Goto("k40")
               /\ UNCHANGED exc
          ELSE /\ Raise("OSError")
               /\ UNCHANGED stream
    /\ UNCHANGED <<now, sigints, rig_vars, cam_vars, vpc, apc, mic_running,
                   mic_start_time, first_buffer_time, audio_frames, wav_writes>>

\* KennelRig.py lines 40-43: shutdown_initiated = False and
\* signal.signal(SIGINT, self.signal_handler); then KennelRig().start()
\* (line 135) enters start().
RegisterHandler ==
    /\ Top = "k40"
    /\ shutdown_initiated' = FALSE
    /\ stack' = Goto("l47")
    /\ UNCHANGED <<now, exc, sigints, start_event, merge_vars, cam_vars,
                   mic_vars, vpc, apc>>

SetupNext == ConstructCamera \/ ConstructMic \/ RegisterHandler \/ Next

SetupSpec == SetupInit /\ [][SetupNext]_vars

\* The constructor ended by an error of a device that did not open.
SetupFailed ==
    /\ stack = <<"crashed">>
    /\ exc = "SystemExit" \/ stream = "unopened"

\* ------------------------------------------------- merge() on its inputs
\* merge() is a function of the four timestamps it reads.  MergeSpec
\* starts at its first line (line 77) after a session in which both
\* capture threads have run and both stops have returned, with the
\* timestamps drawn from 1..MaxStamp in time units of the clock: a stream
\* that got a first sample has it stamped, a first frame is stamped after
\* the video start_time (line 115 precedes line 127), a first buffer may
\* be stamped on either side of the audio start_time (the callback runs
\* from construction on).
MaxStamp == 9

MergeInit ==
    /\ now = MaxStamp
    /\ stack = <<"m77">>
    /\ exc = "none"
    /\ sigints = 0
    /\ start_event = TRUE
    /\ shutdown_initiated = FALSE
    /\ video_delay = 0
    /\ audio_delay = 0
    /\ offset_diff = 0
    /\ command = <<>>
    /\ merge_calls = 0
    /\ cam_running = FALSE
    /\ cam_start_time \in 1..MaxStamp
    /\ first_frame_time \in {None} \cup (cam_start_time + 1)..MaxStamp
    /\ stop_event = TRUE
    /\ current_frame = (first_frame_time # None)
    /\ camera_open = FALSE
    /\ writer_open = FALSE
    /\ nframes = (IF first_frame_time # None THEN 1 ELSE 0)
    /\ written = nframes
    /\ vpc = "done"
    /\ mic_running = FALSE
    /\ mic_start_time \in 1..MaxStamp
    /\ first_buffer_time \in {None} \cup 1..MaxStamp
    /\ audio_frames = (IF first_buffer_time # None THEN 1 ELSE 0)
    /\ stream = "closed"
    /\ listener_open = FALSE
    /\ wav_writes = 1
    /\ apc = "done"

MergeNext == MergeDelays \/ MergeCall

MergeSpec == MergeInit /\ [][MergeNext]_vars

\* Reading an argument list as ffmpeg does: an option is followed by its
\* value, and an input option applies to the next "-i" input after it.
HasOption(cmd, opt) == \E i \in DOMAIN cmd : cmd[i] = opt

OptionValue(cmd, opt) ==
    cmd[(CHOOSE i \in DOMAIN cmd : cmd[i] = opt) + 1]

OffsetInput(cmd) ==
    LET o == CHOOSE i \in DOMAIN cmd : cmd[i] = "-itsoffset"
        n == CHOOSE i \in DOMAIN cmd :
                 /\ i > o
                 /\ cmd[i] = "-i"
                 /\ \A j \in DOMAIN cmd : (j > o /\ cmd[j] = "-i") => i <= j
    IN  cmd[n + 1]

\* ================================================================ claims

AudioStopped == ~mic_running /\ stream = "closed"

\* C1: no start_time (audio or video) is assigned before start_event.set(),
\* and start_event is set only after camera.start() and mic.start() have
\* returned (both capture threads exist).
C1_StartTimesAfterRelease ==
    /\ (cam_start_time # None \/ mic_start_time # None) => start_event
    /\ start_event => (vpc # "none" /\ apc # "none")

C1_BothStreamsStarted ==
    /\ start_event
    /\ cam_start_time # None
    /\ mic_start_time # None

\* C2: whenever a stream's two timestamps are both set, the first-sample
\* time is not earlier than the stream's start_time (audio and video).
C2_FirstSampleNotBeforeStart ==
    /\ (first_buffer_time # None /\ mic_start_time # None)
          => first_buffer_time >= mic_start_time
    /\ (first_frame_time \notin {None, Undefined} /\ cam_start_time # None)
          => first_frame_time >= cam_start_time

\* C3: a first-sample timestamp is assigned by delivery #1 (the first
\* buffer appended, the first frame read), to the time of that delivery,
\* and no later step changes or clears it.
C3_FirstSampleSetOnce ==
    [][ /\ first_buffer_time # None => first_buffer_time' = first_buffer_time
        /\ first_frame_time \notin {None, Undefined}
              => first_frame_time' = first_frame_time
        /\ (first_buffer_time = None /\ first_buffer_time' # None)
              => (audio_frames = 0 /\ audio_frames' = 1 /\ first_buffer_time' = now')
        /\ (first_frame_time = None /\ first_frame_time' # None)
              => (nframes = 1 /\ vpc = "l126" /\ first_frame_time' = now')
        /\ audio_frames' >= 1 => first_buffer_time' # None
        /\ (vpc = "l126" /\ vpc' # "l126") => first_frame_time' \notin {None, Undefined}
      ]_vars

C3_SeveralDeliveries ==
    /\ audio_frames >= 2
    /\ nframes >= 2
    /\ vpc = "l118"
    /\ first_buffer_time # None
    /\ first_frame_time \notin {None, Undefined}

\* C4: merge() does not fail for a stream that received no sample: it never
\* ends by reading a first-sample attribute that was never assigned, and a
\* stream whose first-sample time is unset when the delays are computed
\* has delay 0.
C4_MergeSafeWithoutSample ==
    /\ exc # "AttributeError"
    /\ (Top \in {"m93", "done"} /\ first_buffer_time = None) => audio_delay = 0
    /\ (Top \in {"m93", "done"} /\ first_frame_time = None) => video_delay = 0

\* C5: a second call of mic.stop() raises no error (no operation on the
\* closed stream) and the wave file is written at most once.
C5_SecondStopSafe ==
    /\ exc # "OSError"
    /\ wav_writes <= 1

\* C6: the camera and the writer are not released while the video thread
\* is inside the body of its capture loop (reading or writing a frame).
C6_TeardownAfterLoopExit ==
    (~camera_open \/ ~writer_open) => vpc \notin {"l120", "l126"}

\* C7: once stop has been requested on the video stream (stop_event set),
\* the audio stream is eventually stopped: mic.running false and its
\* device stream closed.
C7_AudioStopsAfterVideo ==
    stop_event ~> AudioStopped

C7_VideoEndedAudioStopped ==
    /\ vpc = "done"
    /\ ~shutdown_initiated
    /\ stop_event
    /\ AudioStopped
    /\ Top = "done"

\* C8: when the handler processes a SIGINT after the barrier was released,
\* merge() is eventually reached and the merge command issued.
C8_AbortStillMerges ==
    (start_event /\ \E i \in DOMAIN stack : stack[i] \in PastGuardPcs)
        ~> (merge_calls > 0)

\* C9: no step taken while the handler is on the stack stops or closes the
\* audio stream, terminates the audio subsystem, writes the wave file or
\* releases the camera or the writer.
C9_HandlerNoTeardown ==
    [][ InHandler =>
          /\ stream' # stream => stream' \notin {"stopped", "closed"}
          /\ listener_open' = listener_open
          /\ wav_writes' = wav_writes
          /\ camera_open' = camera_open
          /\ writer_open' = writer_open
      ]_vars

\* C10: at most one delivery of SIGINT gets past the shutdown_initiated
\* guard of the handler, whatever the number of deliveries.
C10_ProcessedOnce ==
    Cardinality({i \in DOMAIN stack : stack[i] \in PastGuardPcs}) <= 1

\* C11: before start_event.set() no stream has consumed its device: no
\* audio buffer has been delivered to BarkRecorder.record (audio_frames is
\* empty) and no frame has been read from the camera; this covers the
\* states after mic.start() has returned and before the release.
C11_NoConsumptionBeforeRelease ==
    ~start_event => (audio_frames = 0 /\ nframes = 0)

\* C12: merge() computes videoDelay = first_frame_time - start_time and
\* audioDelay = first_buffer_time - start_time (each 0 when the first-sample
\* time is unset) and offsetDiff = audioDelay - videoDelay; the command
\* carries the input-timestamp offset offsetDiff and the resync tolerance 1
\* exactly when offsetDiff > 0, and otherwise carries no input offset and
\* the resync tolerance 10.
C12_OffsetDecision ==
    /\ Top \in {"m93", "done"} =>
          /\ video_delay = (IF first_frame_time = None THEN 0
                            ELSE first_frame_time - cam_start_time)
          /\ audio_delay = (IF first_buffer_time = None THEN 0
                            ELSE first_buffer_time - mic_start_time)
          /\ offset_diff = audio_delay - video_delay
    /\ Top = "done" =>
          /\ merge_calls = 1
          /\ IF offset_diff > 0
             THEN /\ HasOption(command, "-itsoffset")
                  /\ OptionValue(command, "-itsoffset") = ToString(offset_diff)
                  /\ OptionValue(command, "-async") = "1"
             ELSE /\ ~HasOption(command, "-itsoffset")
                  /\ OptionValue(command, "-async") = "10"

C12_DelaysFiveAndEight ==
    /\ Top = "done"
    /\ video_delay = 5
    /\ audio_delay = 8
    /\ offset_diff = 3
    /\ OptionValue(command, "-itsoffset") = "3"

\* C13: when offsetDiff > 0 the input-timestamp offset of the command is
\* applied to the video input and not to the audio input.
C13_OffsetOnVideoInput ==
    (Top = "done" /\ offset_diff > 0) => OffsetInput(command) = "video_1.avi"

\* C14: the merge command is issued at most once, and only after both
\* mic.stop() and camera.stop() have returned to start(); from the return
\* of the stops on, no step assigns a start_time or a first-sample time of
\* either stream.
StopsReturned == stack[1] \in {"m77", "m93", "done"}

C14_MergeOnceTimingReadOnly ==
    [][ /\ merge_calls' <= 1
        /\ merge_calls' # merge_calls => StopsReturned
        /\ StopsReturned =>
              /\ cam_start_time' = cam_start_time
              /\ first_frame_time' = first_frame_time
              /\ mic_start_time' = mic_start_time
              /\ first_buffer_time' = first_buffer_time
      ]_vars

\* C15: the barrier is single-shot: once start() has passed line 49 the
\* barrier is released and stays released (no step re-arms it), and a
\* capture thread that reaches its wait() after the release, the video
\* thread, the audio thread or both, is not suspended: its wait() can
\* return at once.
LineAfterRelease == {"d97", "l54", "l55", "c93", "m77", "m93", "done"}

C15_BarrierSingleShot ==
    /\ [](/\ stack[1] \in LineAfterRelease => start_event
          /\ (start_event /\ vpc = "l114") => ENABLED RecordWait
          /\ (start_event /\ apc = "l81") => ENABLED StandaloneWait)
    /\ [][start_event => start_event']_vars

C15_LateWaiters ==
    /\ start_event
    /\ vpc = "l114"
    /\ apc = "l81"
    /\ stack[1] = "m77"

\* C16: when the camera or the audio input device cannot be opened during
\* construction, the session ends there: no capture thread exists, the
\* barrier is not released and merge is not invoked, in that state and
\* (there being no later step) ever after; and a capture thread is created
\* and the barrier released only with the camera opened and the audio
\* stream opened, the merge command issued only after that release.
C16_SetupFailureFatal ==
    /\ [](SetupFailed =>
            /\ vpc = "none" /\ apc = "none"
            /\ ~start_event
            /\ merge_calls = 0 /\ command = <<>>)
    /\ [][ /\ SetupFailed => UNCHANGED vars
           /\ (vpc # vpc' /\ vpc = "none") \/ (apc # apc' /\ apc = "none")
                 \/ (start_event' /\ ~start_event)
                 => (camera_open /\ stream # "unopened")
           /\ merge_calls' # merge_calls => (start_event /\ stream # "unopened")
         ]_vars

C16_MicNotOpened ==
    /\ SetupFailed
    /\ exc = "OSError"
    /\ camera_open
    /\ stream = "unopened"

\* C17: a read that fails (no frame obtained at line 120) takes the loop
\* to its exit at line 137 with every frame read so far written to the
\* writer; from the exit on the thread reads and writes no frame; and the
\* thread's last step is signal_stop(): running false and stop_event set.
C17_NoRetryAfterFailedRead ==
    [][ /\ (vpc = "l120" /\ vpc' # "l120") =>
              \/ nframes' = nframes + 1 /\ vpc' = "l126"
              \/ nframes' = nframes /\ vpc' = "l138" /\ written = nframes
        /\ vpc \in {"l138", "done"} =>
              /\ vpc' \in {"l138", "done"}
              /\ nframes' = nframes
              /\ written' = written
        /\ (vpc = "l138" /\ vpc' = "done") => (~cam_running' /\ stop_event')
        /\ vpc = "done" => (~cam_running' /\ stop_event')
      ]_vars

C17_ReadFailedAfterFrames ==
    /\ vpc = "l138"
    /\ cam_running
    /\ camera_open
    /\ nframes = MaxFrames
    /\ written = nframes

\* C18: once the handler has processed a SIGINT (shutdown_initiated is true
\* and the handler has returned or ended), neither camera.running nor
\* mic.running is true, wherever in start() the signal was delivered.
C18_AbortNeverLost ==
    (shutdown_initiated /\ ~InHandler) => (~cam_running /\ ~mic_running)

\* C19: once the video thread has left record(), camera.running is false
\* from then on; and when that finds start() in display(), display()
\* eventually ends and start() gets to line 54, where it stops the streams.
C19_PreviewEndsWithCapture ==
    /\ [](vpc = "done" => ~cam_running)
    /\ (vpc = "done" /\ stack[1] = "d97") ~> (stack[1] = "l54")

====
